---- MODULE Spec2Model ----
(***************************************************************************)
(* A model of the multispinner library (package multispinner): the Spinner *)
(* instance, its render goroutine run() and the Control API operations     *)
(* Register, Message, Start, Stop and StopWithError, called by concurrent  *)
(* goroutines.                                                             *)
(*                                                                         *)
(* Granularity.  A caller's critical section (mu.Lock ... mu.Unlock) only  *)
(* touches fields protected by mu and is one step, enabled when mu is      *)
(* free.  The render goroutine holds mu over sleeps and terminal writes,   *)
(* so its acquisition, each of its terminal writes and its release are     *)
(* separate steps.  Every fmt.Print / fmt.Printf call is one terminal      *)
(* write.  A send on the unbuffered updateChan is a rendezvous with the    *)
(* receive in run()'s select.                                              *)
(*                                                                         *)
(* The terminal is modelled by the cursor row relative to the position     *)
(* saved by Create, the cursor visibility and the context that wrote       *)
(* last; `out` is the write performed by the last step.  The animation     *)
(* glyph is not part of the written text in the model.                      *)
(***************************************************************************)
EXTENDS Integers, Sequences, FiniteSets

\* ---------------------------------------------------------------- bounds
MaxSpinners == 2        \* Register is called at most this many times
MaxCalls == 5           \* calls the caller goroutines make, all together
MaxRow == 3             \* last row of the terminal below the saved position

Callers == {"c1", "c2"}
\* the texts callers pass: Start and Stop/StopWithError one, Message another
StartMessages == {"A"}
UpdateMessages == {"B"}
StopMessages == {"A"}
\* -1 is a negative index, MaxSpinners is never a registered index
Indices == -1 .. MaxSpinners

VARIABLES
    spinners,      \* s.spinners: sequence of spinnerInfo (position k+1 holds index k)
    currentLine,   \* s.currentLine
    activeCount,   \* s.activeCount
    mu,            \* s.mu: "free" or "run" (callers hold it within one step)
    stopped,       \* s.stopChan is closed
    rpc,           \* run(): position in the loop
    rmsg,          \* run(): msg received from updateChan
    firstRun,      \* run(): firstRun
    rk,            \* run(): position of the range loop over s.spinners
    pc,            \* caller goroutine: position
    call,          \* caller goroutine: the updateMsg it sends / its arguments
    ncalls,        \* number of Control API calls made so far
    used,          \* caller goroutine: it has made a call
    term,          \* terminal: cursor row, cursor visibility, last writer
    out,           \* what the last step made observable: its terminal write and,
                   \* for Register, the index it returned
    panicked,      \* the operation that panicked (the process is gone), or "none"
    want,          \* history: text last set on each index by a returned Start/Message
    starts,        \* history: Start calls that took effect, per index
    stops          \* history: Stop/StopWithError calls on an index started before, per index

vars == <<spinners, currentLine, activeCount, mu, stopped, rpc, rmsg, firstRun, rk,
          pc, call, ncalls, used, term, out, panicked, want, starts, stops>>

progVars == <<spinners, currentLine, activeCount, mu, stopped, rpc, rmsg, firstRun, rk>>

RegIdx == 0 .. (MaxSpinners - 1)

NoMsg == [index |-> -1, message |-> "", action |-> "", from |-> "none"]
NoOut == [by |-> "none", esc |-> "", row |-> 0, idx |-> -1, text |-> "", ret |-> -1]

Min(a, b) == IF a < b THEN a ELSE b

\* the record with index i
Rec(i) == spinners[i + 1]
InRange(i) == i >= 0 /\ i < Len(spinners)
NumActive == Cardinality({k \in 1 .. Len(spinners) : spinners[k].active})

\* ------------------------------------------------------------- terminal
CursorRestore(by) == [term EXCEPT !.row = 0, !.lastBy = by]
CursorDown(by, n) == [term EXCEPT !.row = Min(term.row + n, MaxRow), !.lastBy = by]
\* text without a newline leaves the cursor on its row
WriteText(by) == [term EXCEPT !.lastBy = by]
\* text ending in "\n" moves the cursor to the next row
WriteLine(by) == [term EXCEPT !.row = Min(term.row + 1, MaxRow), !.lastBy = by]
HideCursor(by) == [term EXCEPT !.visible = FALSE, !.lastBy = by]
ShowCursor(by) == [term EXCEPT !.visible = TRUE, !.lastBy = by]

\* ----------------------------------------------------------------- Init
Init ==
    /\ spinners = <<>>
    /\ currentLine = 0
    /\ activeCount = 0
    /\ mu = "free"
    /\ stopped = FALSE
    /\ rpc = "select"
    /\ rmsg = NoMsg
    /\ firstRun = TRUE
    /\ rk = 0
    /\ pc = [p \in Callers |-> "idle"]
    /\ call = [p \in Callers |-> NoMsg]
    /\ ncalls = 0
    /\ used = [p \in Callers |-> FALSE]
    /\ term = [row |-> 0, visible |-> TRUE, lastBy |-> "create"]
    /\ out = NoOut
    /\ panicked = "none"
    /\ want = [i \in RegIdx |-> ""]
    /\ starts = [i \in RegIdx |-> 0]
    /\ stops = [i \in RegIdx |-> 0]

\* a panic ends the process: no goroutine takes another step
Alive == panicked = "none"

\* ------------------------------------------------------------- Register
\* (a faulty variant: every record gets line offset 0)
NewSpinnerLineZero(index) ==
    [message |-> "", index |-> index, active |-> FALSE, lineNum |-> 0]

NewSpinner(index) ==
    [message |-> "", index |-> index, active |-> FALSE, lineNum |-> currentLine]

Register(p) ==
    /\ Alive
    /\ pc[p] = "idle" /\ ncalls < MaxCalls
    /\ mu = "free"
    /\ Len(spinners) < MaxSpinners
    /\ spinners' = Append(spinners, NewSpinner(Len(spinners)))
    /\ currentLine' = currentLine + 1
    /\ ncalls' = ncalls + 1
    /\ used' = [used EXCEPT ![p] = TRUE]
    /\ out' = [NoOut EXCEPT !.by = p, !.ret = Len(spinners)]
    /\ UNCHANGED <<activeCount, mu, stopped, rpc, rmsg, firstRun, rk, pc, call,
                   term, panicked, want, starts, stops>>

\* ---------------------------------------------------------------- Message
\* Message sends {index, message, "update"} on updateChan: no lock, no index check.
Message(p, index, message) ==
    /\ Alive
    /\ pc[p] = "idle" /\ ncalls < MaxCalls
    /\ call' = [call EXCEPT ![p] = [index |-> index, message |-> message,
                                    action |-> "update", from |-> p]]
    /\ pc' = [pc EXCEPT ![p] = "send"]
    /\ ncalls' = ncalls + 1
    /\ used' = [used EXCEPT ![p] = TRUE]
    /\ out' = NoOut
    /\ UNCHANGED <<progVars, term, panicked, want, starts, stops>>

\* ------------------------------------------------------------------ Start
\* (a faulty variant: Start also moves the record to line 0)
StartFieldsMovesLine(index, message) ==
    [spinners EXCEPT ![index + 1].message = message, ![index + 1].active = TRUE,
                     ![index + 1].lineNum = 0]

\* the fields Start writes under the lock
StartFields(index, message) ==
    [spinners EXCEPT ![index + 1].message = message, ![index + 1].active = TRUE]

Start(p, index, message) ==
    /\ Alive
    /\ pc[p] = "idle" /\ ncalls < MaxCalls
    /\ mu = "free"
    /\ ncalls' = ncalls + 1
    /\ used' = [used EXCEPT ![p] = TRUE]
    /\ out' = NoOut
    /\ IF index >= Len(spinners)
         THEN \* early return
              UNCHANGED <<spinners, pc, call, panicked, want, starts>>
         ELSE IF index < 0
           THEN \* s.spinners[index] with a negative index: runtime panic
                /\ panicked' = "Start"
                /\ UNCHANGED <<spinners, pc, call, want, starts>>
           ELSE /\ spinners' = StartFields(index, message)
                /\ call' = [call EXCEPT ![p] = [index |-> index, message |-> message,
                                                action |-> "start", from |-> p]]
                /\ pc' = [pc EXCEPT ![p] = "send"]
                /\ want' = [want EXCEPT ![index] = message]
                /\ starts' = [starts EXCEPT ![index] = @ + 1]
                /\ UNCHANGED panicked
    /\ UNCHANGED <<currentLine, activeCount, mu, stopped, rpc, rmsg, firstRun, rk,
                   term, stops>>

\* ----------------------------------------------------- Stop, StopWithError
\* (a faulty variant: the active flag is not cleared)
StopFieldsKeepsActive(index) == spinners

\* the field Stop and StopWithError write under the lock
StopFields(index) == [spinners EXCEPT ![index + 1].active = FALSE]

\* the part Stop and StopWithError share: the checks, the flag, the event
StopEntry(p, index, message, action) ==
    /\ Alive
    /\ pc[p] = "idle" /\ ncalls < MaxCalls
    /\ mu = "free"
    /\ ncalls' = ncalls + 1
    /\ used' = [used EXCEPT ![p] = TRUE]
    /\ out' = NoOut
    /\ IF index >= Len(spinners)
         THEN \* early return
              UNCHANGED <<spinners, pc, call, panicked, stops>>
         ELSE IF index < 0
           THEN \* s.spinners[index] with a negative index: runtime panic
                /\ panicked' = action
                /\ UNCHANGED <<spinners, pc, call, stops>>
           ELSE /\ stops' = IF starts[index] > 0
                              THEN [stops EXCEPT ![index] = @ + 1] ELSE stops
                /\ UNCHANGED panicked
                /\ IF ~Rec(index).active
                     THEN \* early return
                          UNCHANGED <<spinners, pc, call>>
                     ELSE /\ spinners' = StopFields(index)
                          /\ call' = [call EXCEPT ![p] =
                                 [index |-> index, message |-> message,
                                  action |-> action, from |-> p]]
                          /\ pc' = [pc EXCEPT ![p] = "send"]
    /\ UNCHANGED <<currentLine, activeCount, mu, stopped, rpc, rmsg, firstRun, rk,
                   term, want, starts>>

Stop(p, index, message) == StopEntry(p, index, message, "stop")

StopWithError(p, index, error) == StopEntry(p, index, error, "error")

\* The final paint of Stop / StopWithError, on the caller's goroutine, without the
\* lock: fmt.Print("\033[u"); if lineNum > 0 fmt.Printf("\033[%dB", lineNum);
\* fmt.Printf("\033[K%s %s\033[0m\n", marker, message).
FinalLine(p) == Rec(call[p].index).lineNum

FinalRestore(p) ==
    /\ Alive
    /\ pc[p] = "restore"
    /\ term' = CursorRestore(p)
    /\ out' = [by |-> p, esc |-> "restore", row |-> 0, idx |-> call[p].index,
               text |-> "", ret |-> -1]
    /\ pc' = [pc EXCEPT ![p] = IF FinalLine(p) > 0 THEN "down" ELSE "write"]
    /\ UNCHANGED <<progVars, call, ncalls, used, panicked, want, starts, stops>>

FinalDown(p) ==
    /\ Alive
    /\ pc[p] = "down"
    /\ term' = CursorDown(p, FinalLine(p))
    /\ out' = [by |-> p, esc |-> "down", row |-> term'.row, idx |-> call[p].index,
               text |-> "", ret |-> -1]
    /\ pc' = [pc EXCEPT ![p] = "write"]
    /\ UNCHANGED <<progVars, call, ncalls, used, panicked, want, starts, stops>>

\* the marker of the final line: success for Stop, failure for StopWithError
FinalMarker(action) == IF action = "stop" THEN "ok" ELSE "fail"

FinalWrite(p) ==
    /\ Alive
    /\ pc[p] = "write"
    /\ term' = WriteLine(p)
    /\ out' = [by |-> p, esc |-> FinalMarker(call[p].action), row |-> term.row,
               idx |-> call[p].index, text |-> call[p].message, ret |-> -1]
    /\ pc' = [pc EXCEPT ![p] = "idle"]
    /\ call' = [call EXCEPT ![p] = NoMsg]
    /\ UNCHANGED <<progVars, ncalls, used, panicked, want, starts, stops>>

\* -------------------------------------------------------------------- run
\* select, case msg := <-s.updateChan: the rendezvous with caller p's send.  A
\* caller at "send" may not have reached the channel's queue yet, so any of the
\* callers at "send" can be the one received.  The
\* send returns: Message and Start return to their caller, Stop and StopWithError
\* go on to the final paint.
AfterSend(action) == IF action \in {"stop", "error"} THEN "restore" ELSE "idle"

RunRecv(p) ==
    /\ Alive
    /\ rpc = "select"
    /\ pc[p] = "send"
    /\ rmsg' = call[p]
    /\ rpc' = "update"
    /\ pc' = [pc EXCEPT ![p] = AfterSend(call[p].action)]
    /\ call' = IF AfterSend(call[p].action) = "idle"
                 THEN [call EXCEPT ![p] = NoMsg] ELSE call
    /\ want' = IF call[p].action = "update" /\ InRange(call[p].index)
                 THEN [want EXCEPT ![call[p].index] = call[p].message]
                 ELSE want
    /\ out' = NoOut
    /\ UNCHANGED <<spinners, currentLine, activeCount, mu, stopped, firstRun, rk,
                   ncalls, used, term, panicked, starts, stops>>

\* case msg := <-s.updateChan: s.mu.Lock()
RunUpdLock ==
    /\ Alive
    /\ rpc = "update"
    /\ mu = "free"
    /\ mu' = "run"
    /\ rpc' = "switch"
    /\ out' = NoOut
    /\ UNCHANGED <<spinners, currentLine, activeCount, stopped, rmsg, firstRun, rk,
                   pc, call, ncalls, used, term, panicked, want, starts, stops>>

\* (a faulty variant: an "update" event is counted like a "start" event)
SwitchCountUpdateCounts(action) ==
    CASE action \in {"start", "update"} -> activeCount + 1
      [] action \in {"stop", "error"} -> activeCount - 1
      [] OTHER -> activeCount

\* switch msg.action: the counter
SwitchCount(action) ==
    CASE action = "start" -> activeCount + 1
      [] action \in {"stop", "error"} -> activeCount - 1
      [] OTHER -> activeCount

\* switch msg.action: the escape sequences printed
SwitchEsc(action) ==
    CASE action = "start" /\ activeCount = 0 -> "hide"
      [] action \in {"stop", "error"} /\ activeCount - 1 = 0 -> "show_reset"
      [] OTHER -> ""

\* switch msg.action: the spinner records ("update" has no case)
SwitchSpinners(msg) == spinners

EscTerm(by, esc) ==
    CASE esc = "hide" -> HideCursor(by)
      [] esc = "show_reset" -> ShowCursor(by)
      [] OTHER -> term

EscOut(by, esc) == IF esc = "" THEN NoOut ELSE [NoOut EXCEPT !.by = by, !.esc = esc]

\* the switch and s.mu.Unlock()
RunUpdApply ==
    /\ Alive
    /\ rpc = "switch"
    /\ activeCount' = SwitchCount(rmsg.action)
    /\ spinners' = SwitchSpinners(rmsg)
    /\ term' = EscTerm("run", SwitchEsc(rmsg.action))
    /\ out' = EscOut("run", SwitchEsc(rmsg.action))
    /\ mu' = "free"
    /\ rmsg' = NoMsg
    /\ rpc' = "select"
    /\ UNCHANGED <<currentLine, stopped, firstRun, rk, pc, call, ncalls, used,
                   panicked, want, starts, stops>>

\* select, default: taken only when no other case is ready
RunDefault ==
    /\ Alive
    /\ rpc = "select"
    /\ ~stopped
    /\ \A p \in Callers : pc[p] # "send"
    /\ rpc' = "lock"
    /\ out' = NoOut
    /\ UNCHANGED <<spinners, currentLine, activeCount, mu, stopped, rmsg, firstRun, rk,
                   pc, call, ncalls, used, term, panicked, want, starts, stops>>

\* default: s.mu.Lock(); if s.activeCount > 0 { if firstRun ... }; with no active
\* spinner the lock is released at once
RunDefLock ==
    /\ Alive
    /\ rpc = "lock"
    /\ mu = "free"
    /\ IF activeCount > 0
         THEN /\ mu' = "run"
              /\ firstRun' = FALSE
              /\ rpc' = IF firstRun THEN "paint" ELSE "sleep"
              /\ rk' = 1
         ELSE /\ rpc' = "select"
              /\ UNCHANGED <<mu, firstRun, rk>>
    /\ out' = NoOut
    /\ UNCHANGED <<spinners, currentLine, activeCount, stopped, rmsg,
                   pc, call, ncalls, used, term, panicked, want, starts, stops>>

\* time.Sleep(s.frequency), holding the lock
RunSleep ==
    /\ Alive
    /\ rpc = "sleep"
    /\ rpc' = "paint"
    /\ out' = NoOut
    /\ UNCHANGED <<spinners, currentLine, activeCount, mu, stopped, rmsg, firstRun, rk,
                   pc, call, ncalls, used, term, panicked, want, starts, stops>>

\* (a faulty variant: the repaint does not look at the active flag)
PaintsRecordAlways(k) == TRUE

\* if spinner.active: the records the range loop repaints
PaintsRecord(k) == spinners[k].active

\* for _, spinner := range s.spinners: an inactive record is skipped, for an active
\* one fmt.Print("\033[u")
RunPaintRestore ==
    /\ Alive
    /\ rpc = "paint"
    /\ rk <= Len(spinners)
    /\ IF PaintsRecord(rk)
         THEN /\ term' = CursorRestore("run")
              /\ out' = [by |-> "run", esc |-> "restore", row |-> 0,
                         idx |-> spinners[rk].index, text |-> "", ret |-> -1]
              /\ rpc' = IF spinners[rk].lineNum > 0 THEN "pdown" ELSE "pwrite"
              /\ rk' = rk
         ELSE /\ rk' = rk + 1
              /\ out' = NoOut
              /\ UNCHANGED <<term, rpc>>
    /\ UNCHANGED <<spinners, currentLine, activeCount, mu, stopped, rmsg, firstRun,
                   pc, call, ncalls, used, panicked, want, starts, stops>>

\* fmt.Printf("\033[%dB", spinner.lineNum)
RunPaintDown ==
    /\ Alive
    /\ rpc = "pdown"
    /\ term' = CursorDown("run", spinners[rk].lineNum)
    /\ out' = [by |-> "run", esc |-> "down", row |-> term'.row,
               idx |-> spinners[rk].index, text |-> "", ret |-> -1]
    /\ rpc' = "pwrite"
    /\ UNCHANGED <<spinners, currentLine, activeCount, mu, stopped, rmsg, firstRun, rk,
                   pc, call, ncalls, used, panicked, want, starts, stops>>

\* fmt.Printf("\033[K\033[0m%s %s", chars[i], spinner.message)
RunPaintWrite ==
    /\ Alive
    /\ rpc = "pwrite"
    /\ term' = WriteText("run")
    /\ out' = [by |-> "run", esc |-> "repaint", row |-> term.row,
               idx |-> spinners[rk].index, text |-> spinners[rk].message, ret |-> -1]
    /\ rpc' = "paint"
    /\ rk' = rk + 1
    /\ UNCHANGED <<spinners, currentLine, activeCount, mu, stopped, rmsg, firstRun,
                   pc, call, ncalls, used, panicked, want, starts, stops>>

\* the end of the range loop: s.mu.Unlock()
RunPaintDone ==
    /\ Alive
    /\ rpc = "paint"
    /\ rk > Len(spinners)
    /\ mu' = "free"
    /\ rpc' = "select"
    /\ rk' = 0
    /\ out' = NoOut
    /\ UNCHANGED <<spinners, currentLine, activeCount, stopped, rmsg, firstRun,
                   pc, call, ncalls, used, term, panicked, want, starts, stops>>

\* select, case <-s.stopChan: show the cursor, reset the attributes, return
StopCaseEsc == "show_reset"

RunRecvStop ==
    /\ Alive
    /\ rpc = "select"
    /\ stopped
    /\ term' = EscTerm("run", StopCaseEsc)
    /\ out' = EscOut("run", StopCaseEsc)
    /\ rpc' = "exited"
    /\ UNCHANGED <<spinners, currentLine, activeCount, mu, stopped, rmsg, firstRun, rk,
                   pc, call, ncalls, used, panicked, want, starts, stops>>

\* the termination signal: stopChan is closed
Terminate ==
    /\ Alive
    /\ ~stopped
    /\ stopped' = TRUE
    /\ out' = NoOut
    /\ UNCHANGED <<spinners, currentLine, activeCount, mu, rpc, rmsg, firstRun, rk,
                   pc, call, ncalls, used, term, panicked, want, starts, stops>>

\* ------------------------------------------------------- specifications
RunNext ==
    \/ \E p \in Callers : RunRecv(p)
    \/ RunUpdLock
    \/ RunUpdApply
    \/ RunDefault
    \/ RunDefLock
    \/ RunSleep
    \/ RunPaintRestore
    \/ RunPaintDown
    \/ RunPaintWrite
    \/ RunPaintDone

CallerNext(p) ==
    \/ Register(p)
    \/ \E i \in Indices, m \in UpdateMessages : Message(p, i, m)
    \/ \E i \in Indices, m \in StartMessages : Start(p, i, m)
    \/ \E i \in Indices, m \in StopMessages : Stop(p, i, m)
    \/ \E i \in Indices, m \in StopMessages : StopWithError(p, i, m)
    \/ FinalRestore(p)
    \/ FinalDown(p)
    \/ FinalWrite(p)

Next == RunNext \/ \E p \in Callers : CallerNext(p)

Spec == Init /\ [][Next]_vars

\* The teardown: the termination signal and run()'s stopChan case.  No operation of
\* the package closes stopChan, so Spec has neither.
NextTeardown == Next \/ RunRecvStop \/ Terminate

SpecTeardown == Init /\ [][NextTeardown]_vars

\* The Go scheduler runs a runnable goroutine: run() takes its next step whenever
\* one is possible.
FairTeardown == SpecTeardown /\ WF_vars(RunNext \/ RunRecvStop)

\* ------------------------------------------------------------------ claims
\* no call is in progress and run() holds no received event
Quiescent ==
    /\ \A p \in Callers : pc[p] = "idle"
    /\ rpc \notin {"update", "switch"}

\* C1: in every reachable state activeCount equals the number of records whose
\* active flag is true.
C1_ActiveCountMatches == activeCount = NumActive

\* C2: after Start(i), Start(i), Stop(i) on one index (and nothing started on any
\* other), once every event is processed, activeCount is 0 and the cursor is shown:
\* a Start on an active record does not count twice.
C2_RepeatedStartCountsOnce ==
    \A i \in RegIdx :
        ( /\ Quiescent
          /\ starts[i] = 2 /\ stops[i] = 1
          /\ InRange(i) /\ ~Rec(i).active
          /\ \A j \in RegIdx \ {i} : starts[j] = 0 )
        => (activeCount = 0 /\ term.visible)

\* C3: when every Start call has been matched by a later Stop/StopWithError call on
\* the same index and every event is processed, activeCount is back at 0 (cursor
\* shown); the hide-cursor sequence is written exactly on the 0-to-1 changes of
\* activeCount and the show-cursor sequence exactly on its 1-to-0 changes.
AllMatched ==
    /\ \E i \in RegIdx : starts[i] > 0
    /\ \A i \in RegIdx : starts[i] = stops[i] /\ (InRange(i) => ~Rec(i).active)

C3_MatchedPairsReturnToZero ==
    [][ /\ (Quiescent /\ AllMatched)' => (activeCount' = 0 /\ term'.visible)
        /\ (out'.esc = "hide") <=> (activeCount = 0 /\ activeCount' = 1)
        /\ (out'.esc = "show_reset") <=> (activeCount = 1 /\ activeCount' = 0) ]_vars

\* C4: when distinct spinners are each started once and then stopped by concurrent
\* callers, every final paint is written on the terminal row of its own spinner's
\* line offset.
C4_FinalPaintOnOwnRow ==
    [][ ((\A i \in RegIdx : starts[i] <= 1) /\ out'.esc \in {"ok", "fail"})
           => out'.row = Rec(out'.idx).lineNum ]_vars

\* C5: after Message(i, text) has returned for a registered, active spinner i (and
\* no later Start or Message replaced the text), the record's message is text, and
\* a repaint of spinner i writes that text.  Stated for calls made one after the
\* other by a single goroutine, where "later" is the program order.
OneCaller == \E p \in Callers : \A q \in Callers \ {p} : ~used[q]

C5_MessageVisible ==
    [][ OneCaller' =>
          /\ \A i \in RegIdx :
               (InRange(i) /\ Rec(i).active /\ want[i] # "")'
                   => Rec(i).message' = want'[i]
          /\ (out'.esc = "repaint") => out'.text = want'[out'.idx] ]_vars

\* C6: when Stop / StopWithError returns after being called on an active spinner,
\* the render loop has applied its event (activeCount decremented and, for the last
\* active spinner, the cursor shown): with no other call in progress, no stop/error
\* event is still unapplied in the render loop once its sender has left the call.
C6_StopEffectsDoneAtReturn ==
    \A p \in Callers :
        ( /\ rmsg.from = p /\ rmsg.action \in {"stop", "error"}
          /\ \A q \in Callers \ {p} : pc[q] = "idle" )
        => pc[p] \in {"restore", "down", "write"}

\* C7: Start with an index that is not a registered handle (negative or too large)
\* is a no-op: no panic, no record or counter change, no event, no output.
NoOp(p) ==
    /\ UNCHANGED <<spinners, currentLine, activeCount, mu, rpc, rmsg, term, panicked>>
    /\ pc'[p] = "idle"
    /\ out' = NoOut

C7_StartOutOfRangeNoOp ==
    [][ \A p \in Callers, i \in Indices, m \in StartMessages :
          (Start(p, i, m) /\ ~InRange(i)) => NoOp(p) ]_vars

\* C8: Stop / StopWithError with an out-of-range index, or with the index of an
\* inactive record, is a no-op: no record or counter change, no event, no output.
C8_StopInvalidNoOp ==
    [][ \A p \in Callers, i \in Indices, m \in StopMessages :
          ((Stop(p, i, m) \/ StopWithError(p, i, m))
             /\ (~InRange(i) \/ ~Rec(i).active)) => NoOp(p) ]_vars

\* C9: every Register call returns the number of records registered before it (so
\* N calls return 0..N-1 in the order they take the lock, none twice), and the
\* record it appends, and only that record, has that index and that line offset.
C9_RegisterReturnsNextIndex ==
    [][ /\ (out'.ret # -1) =>
              /\ out'.ret = Len(spinners)
              /\ spinners' = Append(spinners, spinners'[Len(spinners')])
              /\ spinners'[Len(spinners')].index = out'.ret
              /\ spinners'[Len(spinners')].lineNum = out'.ret
        /\ (Len(spinners') # Len(spinners)) => out'.ret # -1 ]_vars

\* two Register calls of different goroutines have returned 0 and 1, with a Start
\* on the first record in between
C9_Witness ==
    /\ Len(spinners) = 2
    /\ out.ret = 1
    /\ starts[0] > 0
    /\ \A p \in Callers : used[p]

\* C10: once the termination signal is raised the render loop shows the cursor,
\* resets the attributes and exits: when the program has come to rest after the
\* signal, the render loop has exited and the cursor is visible.
C10_TeardownRestoresCursor ==
    (stopped /\ ~ENABLED NextTeardown) => (rpc = "exited" /\ term.visible)

\* What run()'s stopChan case does by itself (holds under SpecTeardown): the step
\* that exits comes after the signal, writes the show-cursor and reset sequences
\* and leaves the cursor visible; after it run() writes nothing more.
StopCaseShowsCursorOnce ==
    [][ /\ (rpc # "exited" /\ rpc' = "exited")
              => (stopped /\ out'.by = "run" /\ out'.esc = "show_reset" /\ term'.visible)
        /\ (rpc = "exited")
              => (rpc' = "exited" /\ out'.by # "run" /\ term'.visible) ]_vars

\* (holds under FairTeardown) after the signal run() exits unless the process has
\* panicked
ExitsUnlessPanicked == stopped ~> (rpc = "exited" \/ ~Alive)

\* C11: a record that has been stopped by Stop / StopWithError (stops counts the
\* Stop calls on a record started before; with one the record has been stopped) is
\* in its terminal state: no step makes it active again.
C11_StoppedIsTerminal ==
    [][ \A i \in RegIdx :
          (InRange(i) /\ stops[i] > 0 /\ ~Rec(i).active) => ~Rec(i).active' ]_vars

\* C12: for every index the render loop receives the "start" event of an activation
\* before the "stop"/"error" event that ends it (stated for an index started once:
\* while run() holds a stop/error event for it, no start event for it is still
\* unsent), and activeCount is never negative.
StartEventPending(i) ==
    \E p \in Callers : pc[p] = "send" /\ call[p].action = "start" /\ call[p].index = i

C12_StartProcessedBeforeStop ==
    /\ activeCount >= 0
    /\ \A i \in RegIdx :
         (rmsg.action \in {"stop", "error"} /\ rmsg.index = i /\ starts[i] = 1)
             => ~StartEventPending(i)

\* C13: terminal writes of different contexts are mutually exclusive: while run()
\* is between the cursor-restore and the text write of a line repaint no caller
\* writes to the terminal, and while a caller is between the cursor-restore and the
\* last write of its final paint run() does not write to the terminal.
InRepaint == rpc \in {"pdown", "pwrite"}
InFinalPaint(p) == pc[p] \in {"down", "write"}

C13_TerminalWritesExclusive ==
    [][ /\ InRepaint => ~(out'.esc # "" /\ out'.by \in Callers)
        /\ (\E p \in Callers : InFinalPaint(p)) => ~(out'.esc # "" /\ out'.by = "run") ]_vars

\* C14: run() never starts or continues the repaint of an inactive record: at every
\* repaint write for record i (cursor-restore, cursor-down, text) record i is active
\* before and after the write, so a record whose flag Stop / StopWithError has
\* cleared is not repainted until a Start sets the flag again.
RepaintWrite(o) == o.by = "run" /\ o.esc \in {"restore", "down", "repaint"}

C14_RepaintsOnlyActive ==
    [][ RepaintWrite(out') =>
           /\ InRange(out'.idx)
           /\ Rec(out'.idx).active
           /\ spinners'[out'.idx + 1].active ]_vars

\* run() has written the text of record 1 in a pass that skipped record 0, which
\* was started and then stopped, while the stop event of record 0 is not applied yet
C14_Witness ==
    /\ out.by = "run" /\ out.esc = "repaint" /\ out.idx = 1
    /\ Len(spinners) = 2
    /\ starts[0] = 1 /\ stops[0] = 1 /\ ~Rec(0).active
    /\ activeCount = 2

\* C15: in every state in which run() does not hold the lock, the cursor is hidden
\* exactly when activeCount > 0 and shown exactly when activeCount = 0.
C15_CursorFollowsActiveCount ==
    (mu # "run") => /\ (~term.visible) <=> (activeCount > 0)
                    /\ term.visible <=> (activeCount = 0)

\* (holds) the part of C15 that does not depend on the counter staying non-negative
CursorHiddenIffPositive == (mu # "run") => ((~term.visible) <=> (activeCount > 0))

\* C16: no context writes to the terminal or sleeps while it holds the lock: run()
\* (the callers' critical sections are single steps without a write) performs no
\* terminal write and no time.Sleep in a step that starts with the lock held by it.
C16_NoIOUnderLock ==
    [][ (mu = "run") => /\ ~(out'.by = "run" /\ out'.esc # "")
                        /\ rpc # "sleep" ]_vars

\* The Go scheduler runs every runnable goroutine: run() takes its next step
\* whenever one is possible, and a caller inside Stop / StopWithError goes on with
\* its final paint.  (Entering a call is the caller's choice and is not forced; a
\* call starts in the model when it gets the lock, sync.Mutex being starvation-free.)
FinalPaintNext(p) == FinalRestore(p) \/ FinalDown(p) \/ FinalWrite(p)

FairSpec ==
    /\ Spec
    /\ WF_vars(RunNext)
    /\ \A p \in Callers : WF_vars(FinalPaintNext(p))

\* C17: every call that is in progress eventually returns, and while a caller is
\* blocked on its send run() does not begin another pass of its default branch
\* (the pass in progress ends and the next select takes an event).
C17_CallsReturn ==
    /\ \A p \in Callers : (pc[p] # "idle") ~> (pc[p] = "idle")
    /\ [][ (\E p \in Callers : pc[p] = "send") => ~(rpc = "select" /\ rpc' = "lock") ]_vars

\* (holds under FairSpec) every call in progress returns unless the process panics
ReturnsUnlessPanicked ==
    \A p \in Callers : (pc[p] # "idle") ~> (pc[p] = "idle" \/ ~Alive)

\* (holds under Spec) a caller blocked on its send sees no new pass begin
SenderWaitsOnePass ==
    [][ (\E p \in Callers : pc[p] = "send") => ~(rpc = "select" /\ rpc' = "lock") ]_vars

\* C18: Message(index, text), for any index and in any state, leaves every active
\* flag, activeCount, the cursor visibility and the number of records unchanged,
\* both in the step of the call and in the steps in which run() receives, locks for
\* and applies its "update" event.
ActiveFlags == [k \in 1 .. Len(spinners) |-> spinners[k].active]

MessageFrame == UNCHANGED <<ActiveFlags, activeCount, term.visible, Len(spinners)>>

UpdateEventStep == rpc' # rpc /\ (rmsg.action = "update" \/ rmsg'.action = "update")

C18_MessageFrame ==
    [][ /\ (\E p \in Callers, i \in Indices, m \in UpdateMessages : Message(p, i, m))
              => MessageFrame
        /\ UpdateEventStep => MessageFrame ]_vars

\* Message(0, "B") was called on the only active, started spinner and run() has
\* received and applied its event: everything is at rest, the cursor still hidden
C18_Witness ==
    /\ Quiescent /\ rpc = "select"
    /\ want[0] = "B"
    /\ InRange(0) /\ Rec(0).active /\ starts[0] = 1
    /\ activeCount = 1 /\ ~term.visible

\* C19: registration is append-only and line positions are stable: in every state
\* the record at position k (counted from 0) has index k and line offset k, so no
\* two records share a line; every step keeps the index and line offset of every
\* existing record and either keeps the number of records or, in a Register step
\* only, appends one record.
LinesByPosition ==
    \A k \in 1 .. Len(spinners) : spinners[k].index = k - 1 /\ spinners[k].lineNum = k - 1

RegisterStep == \E p \in Callers : Register(p)

AppendOnly ==
    /\ Len(spinners') \in {Len(spinners), Len(spinners) + 1}
    /\ \A k \in 1 .. Len(spinners) :
         /\ spinners'[k].index = spinners[k].index
         /\ spinners'[k].lineNum = spinners[k].lineNum
    /\ (Len(spinners') # Len(spinners)) => RegisterStep

C19_AppendOnlyStableLines == [] LinesByPosition /\ [][AppendOnly]_vars

\* both records are registered and have gone through Start, and record 0 through
\* Stop as well: record 1 is still on its own line
C19_Witness ==
    /\ Len(spinners) = 2
    /\ starts[0] > 0 /\ stops[0] > 0 /\ starts[1] > 0
    /\ ~Rec(0).active /\ Rec(1).active
    /\ Rec(1).lineNum = 1

\* C20: when Stop / StopWithError calls race on one active spinner, exactly one
\* takes effect.  A Stop / StopWithError step on a registered index takes effect
\* (sends a stop/error event for it, to be followed by the final paint) exactly
\* when the record is active, and leaves the record inactive, so that the next such
\* step on it is a no-op unless a Start step, the only step that sets the flag,
\* came in between; a final line is written only by a caller at the end of a call
\* that took effect.
StopStep(p, i) ==
    \E m \in StopMessages : Stop(p, i, m) \/ StopWithError(p, i, m)

StartStep(i) ==
    \E p \in Callers, m \in StartMessages : Start(p, i, m)

TakesEffect(p, i) ==
    /\ pc'[p] = "send"
    /\ call'[p].index = i /\ call'[p].action \in {"stop", "error"}

C20_OneRacingStopTakesEffect ==
    [][ /\ \A p \in Callers, i \in RegIdx :
             (StopStep(p, i) /\ InRange(i)) =>
                 /\ ~spinners'[i + 1].active
                 /\ Rec(i).active => TakesEffect(p, i)
                 /\ ~Rec(i).active => NoOp(p)
        /\ \A i \in RegIdx :
             (InRange(i) /\ ~Rec(i).active /\ spinners'[i + 1].active) => StartStep(i)
        /\ \A p \in Callers :
             (pc'[p] = "send" /\ pc[p] # "send" /\ call'[p].action \in {"stop", "error"})
                 => StopStep(p, call'[p].index) /\ Rec(call'[p].index).active
        /\ (out'.esc \in {"ok", "fail"}) =>
               /\ out'.by \in Callers
               /\ pc[out'.by] = "write" /\ pc'[out'.by] = "idle"
               /\ call[out'.by].action \in {"stop", "error"} ]_vars

\* two goroutines have called Stop / StopWithError on spinner 0, started once: one
\* call took effect and is still blocked on its send, the other has returned
C20_Witness ==
    /\ starts[0] = 1 /\ stops[0] = 2
    /\ \E p \in Callers :
         /\ pc[p] = "send" /\ call[p].index = 0 /\ call[p].action \in {"stop", "error"}
         /\ \A q \in Callers \ {p} : used[q] /\ pc[q] = "idle"

====
